---- MODULE Spec2Model ----
(***************************************************************************)
(* Model of the stub generation engine of pyo3-stub-gen:                   *)
(*   - StubInfoBuilder (generate/stub_info.rs): the two-pass build that    *)
(*     merges the registered descriptors into a module tree;               *)
(*   - the self-import strategy derived from requires-python               *)
(*     (generate/stub_info.rs);                                            *)
(*   - the union type synthesized for a complex enum                       *)
(*     (gen_stub/pyclass_complex_enum.rs, gen_stub/stub_type.rs).          *)
(* Strings whose characters the code inspects (module names, version       *)
(* constraints) are sequences of one-character strings.                    *)
(***************************************************************************)
EXTENDS Integers, Sequences, FiniteSets, TLC

VARIABLES
    registry,          \* the descriptors inventory::iter yields, per kind, in the order yielded
    modules,           \* StubInfoBuilder.modules: module name -> Module
    pc,                \* position of build(): the pass it is in, "done" or "panicked"
    idx,               \* index of the next descriptor of the current pass
    requires_python,   \* pyproject.project.requires_python: Option<String>
    tokens,            \* the constraints requires_python was written from
    strategy,          \* the process-wide SelfImportStrategy
    min_version,       \* what parse_minimum_python_version returned to the last call
    configured,        \* configure_self_import_strategy_from_requires_python has run
    enum_info,         \* the PyComplexEnumInfo the derive macro parsed: Option
    stub_type,         \* the StubType built from it: Option
    impl_tokens,       \* the PyStubType impl written from the StubType: Option
    display_method,    \* the MethodDef handed to Display: Option
    rendered,          \* the text Display wrote for it: Option
    variant_info,      \* the VariantInfo handed to get_variant_methods: Option
    variant_methods    \* the map get_variant_methods returned: Option

builderVars == <<registry, modules, pc, idx>>
versionVars == <<requires_python, tokens, strategy, min_version, configured>>
unionVars == <<enum_info, stub_type, impl_tokens>>
generateVars == <<display_method, rendered, variant_info, variant_methods>>
vars == <<builderVars, versionVars, unionVars, generateVars>>

(* ------------------------------------------------------------------ *)
(* Strings as character sequences                                      *)
(* ------------------------------------------------------------------ *)

\* Byte value of the characters used in module names and constraints.
CharCode ==
    (" " :> 32) @@ ("*" :> 42) @@ ("+" :> 43) @@ ("," :> 44) @@ ("." :> 46) @@
    ("0" :> 48) @@ ("1" :> 49) @@ ("2" :> 50) @@ ("3" :> 51) @@ ("4" :> 52) @@
    ("5" :> 53) @@ ("6" :> 54) @@ ("7" :> 55) @@ ("8" :> 56) @@ ("9" :> 57) @@
    ("<" :> 60) @@ ("=" :> 61) @@ (">" :> 62) @@
    ("a" :> 97) @@ ("b" :> 98) @@ ("c" :> 99) @@ ("r" :> 114) @@ ("v" :> 118) @@
    ("x" :> 120) @@ ("~" :> 126)

\* Ord for String: bytewise lexicographic, a proper prefix is smaller.
StrLess(s, t) ==
    \E i \in 1..(Len(s) + 1) :
        /\ \A j \in 1..(i - 1) : j <= Len(t) /\ s[j] = t[j]
        /\ \/ i = Len(s) + 1 /\ i <= Len(t)
           \/ i <= Len(s) /\ i <= Len(t) /\ CharCode[s[i]] < CharCode[t[i]]

\* str::split(pat) for a set of separator characters: always at least one piece.
RECURSIVE Split(_, _)
Split(s, seps) ==
    IF \A i \in 1..Len(s) : s[i] \notin seps
    THEN <<s>>
    ELSE LET i == CHOOSE k \in 1..Len(s) :
                      s[k] \in seps /\ \A j \in 1..(k - 1) : s[j] \notin seps
         IN  <<SubSeq(s, 1, i - 1)>> \o Split(SubSeq(s, i + 1, Len(s)), seps)

\* [&str]::join(sep)
RECURSIVE Join(_, _)
Join(parts, sep) ==
    IF Len(parts) = 0 THEN <<>>
    ELSE IF Len(parts) = 1 THEN parts[1]
    ELSE parts[1] \o sep \o Join(Tail(parts), sep)

(* ------------------------------------------------------------------ *)
(* Maps and options                                                    *)
(* ------------------------------------------------------------------ *)

None == <<>>
Some(v) == <<v>>

EmptyMap == <<>>
Insert(m, k, v) == [x \in (DOMAIN m) \cup {k} |-> IF x = k THEN v ELSE m[x]]
EntryOrDefault(m, k, d) == IF k \in DOMAIN m THEN m[k] ELSE d

(* ------------------------------------------------------------------ *)
(* Entity records (generate/*.rs)                                      *)
(* ------------------------------------------------------------------ *)

ModA   == <<"a">>
ModAB  == <<"a", ".", "b">>
ModABC == <<"a", ".", "b", ".", "c">>

\* StubInfoBuilder.default_module_name, fixed by from_project_root.
default_module_name == ModA

\* Module::default()
DefaultModule ==
    [name |-> <<>>, default_module_name |-> <<>>, doc |-> "",
     class |-> EmptyMap, enum_ |-> EmptyMap, function |-> EmptyMap,
     variables |-> EmptyMap, submodules |-> {}]

\* ClassDef::from(&PyClassInfo): a class with no members yet.
ClassDefFromClass(info) ==
    [name |-> info.pyclass_name, attrs |-> <<>>, getter_setters |-> EmptyMap,
     methods |-> EmptyMap, is_abstract |-> FALSE]

\* ClassDef::from(&PyComplexEnumInfo): the enum's own class, no members yet.
ClassDefFromComplexEnum(info) ==
    [name |-> info.pyclass_name, attrs |-> <<>>, getter_setters |-> EmptyMap,
     methods |-> EmptyMap, is_abstract |-> FALSE]

\* EnumDef::from(&PyEnumInfo)
EnumDefFromEnum(info) ==
    [name |-> info.pyclass_name, attrs |-> <<>>, getters |-> <<>>,
     setters |-> <<>>, methods |-> <<>>, is_abstract |-> FALSE]

\* FunctionDef::from(&PyFunctionInfo)
FunctionDefFrom(info) == [name |-> info.name, return |-> info.return]

\* VariableDef::from(&PyVariableInfo)
VariableDefFrom(info) == [name |-> info.name, type |-> info.type]

\* ClassDef::mark_abstract
mark_abstract(entry) == [entry EXCEPT !.is_abstract = TRUE]

\* MemberDef built from an attribute descriptor: never abstract.
MemberDefFromAttr(attr) ==
    [name |-> attr.name, type |-> attr.type, is_abstract |-> FALSE]

\* MemberDef built from a getter or setter descriptor.
MemberDefFromAccessor(m) ==
    [name |-> m.name, type |-> m.type, is_abstract |-> m.is_abstract]

\* MethodDef::from(&MethodInfo): a constructor returns the self type.
MethodDefFrom(info) ==
    [name |-> info.name,
     return |-> IF info.type = "New" THEN "Self" ELSE info.return,
     type |-> info.type,
     is_abstract |-> info.is_abstract]

(* ------------------------------------------------------------------ *)
(* StubInfoBuilder                                                     *)
(* ------------------------------------------------------------------ *)

ModuleNameOf(name) == IF name = None THEN default_module_name ELSE name[1]

\* get_module: the module of that name, created on first use.
get_module(mods, name) ==
    LET n == ModuleNameOf(name)
    IN  Insert(mods, n,
               [EntryOrDefault(mods, n, DefaultModule)
                    EXCEPT !.name = n, !.default_module_name = default_module_name])

add_class(mods, info) ==
    LET n == ModuleNameOf(info.module)
    IN  [get_module(mods, info.module) EXCEPT
            ![n].class = Insert(@, info.struct_id, ClassDefFromClass(info))]

add_complex_enum(mods, info) ==
    LET n == ModuleNameOf(info.module)
    IN  [get_module(mods, info.module) EXCEPT
            ![n].class = Insert(@, info.enum_id, ClassDefFromComplexEnum(info))]

add_enum(mods, info) ==
    LET n == ModuleNameOf(info.module)
    IN  [get_module(mods, info.module) EXCEPT
            ![n].enum_ = Insert(@, info.enum_id, EnumDefFromEnum(info))]

add_function(mods, info) ==
    LET n == ModuleNameOf(info.module)
    IN  [get_module(mods, info.module) EXCEPT
            ![n].function =
                Insert(@, info.name,
                       Append(EntryOrDefault(@, info.name, <<>>), FunctionDefFrom(info)))]

add_variable(mods, info) ==
    LET n == ModuleNameOf(Some(info.module))
    IN  [get_module(mods, Some(info.module)) EXCEPT
            ![n].variables = Insert(@, info.name, VariableDefFrom(info))]

add_module_doc(mods, info) ==
    LET n == ModuleNameOf(Some(info.module))
    IN  [get_module(mods, Some(info.module)) EXCEPT ![n].doc = info.doc]

\* for attr in info.attrs { entry.attrs.push(..) }   (class and enum branch)
PushAttrs(entry, attrs) ==
    [entry EXCEPT !.attrs = @ \o [i \in 1..Len(attrs) |-> MemberDefFromAttr(attrs[i])]]

\* Mutant of SetGetter: an abstract getter does not mark the class.
SetGetterUnmarked(entry, getter) ==
    LET old == EntryOrDefault(entry.getter_setters, getter.name, <<None, None>>)
    IN  [entry EXCEPT !.getter_setters =
            Insert(@, getter.name, <<Some(MemberDefFromAccessor(getter)), old[2]>>)]

\* Mutant of SetGetter: a name without a setter gets a defaulted setter side.
SetGetterDefaultsSetter(entry, getter) ==
    LET old == EntryOrDefault(entry.getter_setters, getter.name,
                              <<None, Some([name |-> getter.name, type |-> getter.type,
                                            is_abstract |-> FALSE])>>)
        e1  == [entry EXCEPT !.getter_setters =
                    Insert(@, getter.name, <<Some(MemberDefFromAccessor(getter)), old[2]>>)]
    IN  IF getter.is_abstract THEN mark_abstract(e1) ELSE e1

\* one iteration of `for getter in info.getters` of the class branch
SetGetter(entry, getter) ==
    LET old == EntryOrDefault(entry.getter_setters, getter.name, <<None, None>>)
        e1  == [entry EXCEPT !.getter_setters =
                    Insert(@, getter.name, <<Some(MemberDefFromAccessor(getter)), old[2]>>)]
    IN  IF getter.is_abstract THEN mark_abstract(e1) ELSE e1

\* Mutant of SetSetter: the pair is rebuilt, which clears the getter side.
SetSetterDropsGetter(entry, setter) ==
    LET e1 == [entry EXCEPT !.getter_setters =
                    Insert(@, setter.name, <<None, Some(MemberDefFromAccessor(setter))>>)]
    IN  IF setter.is_abstract THEN mark_abstract(e1) ELSE e1

\* one iteration of `for setter in info.setters` of the class branch
SetSetter(entry, setter) ==
    LET old == EntryOrDefault(entry.getter_setters, setter.name, <<None, None>>)
        e1  == [entry EXCEPT !.getter_setters =
                    Insert(@, setter.name, <<old[1], Some(MemberDefFromAccessor(setter))>>)]
    IN  IF setter.is_abstract THEN mark_abstract(e1) ELSE e1

\* Mutant of PushMethod: a method equal to one already listed is not pushed again.
PushMethodDedup(entry, method) ==
    LET method_def == MethodDefFrom(method)
        e1 == IF method_def.is_abstract THEN mark_abstract(entry) ELSE entry
        old == EntryOrDefault(e1.methods, method_def.name, <<>>)
    IN  [e1 EXCEPT !.methods =
            Insert(@, method_def.name,
                   IF \E i \in 1..Len(old) : old[i] = method_def
                   THEN old ELSE Append(old, method_def))]

\* one iteration of `for method in info.methods` of the class branch
PushMethod(entry, method) ==
    LET method_def == MethodDefFrom(method)
        e1 == IF method_def.is_abstract THEN mark_abstract(entry) ELSE entry
    IN  [e1 EXCEPT !.methods =
            Insert(@, method_def.name,
                   Append(EntryOrDefault(@, method_def.name, <<>>), method_def))]

RECURSIVE MergeGetters(_, _)
MergeGetters(entry, getters) ==
    IF getters = <<>> THEN entry
    ELSE MergeGetters(SetGetter(entry, Head(getters)), Tail(getters))

RECURSIVE MergeSetters(_, _)
MergeSetters(entry, setters) ==
    IF setters = <<>> THEN entry
    ELSE MergeSetters(SetSetter(entry, Head(setters)), Tail(setters))

RECURSIVE MergeMethods(_, _)
MergeMethods(entry, methods) ==
    IF methods = <<>> THEN entry
    ELSE MergeMethods(PushMethod(entry, Head(methods)), Tail(methods))

\* The class branch of add_methods.
MergeIntoClass(entry, info) ==
    MergeMethods(
        MergeSetters(
            MergeGetters(PushAttrs(entry, info.attrs), info.getters),
            info.setters),
        info.methods)

\* The enum branch of add_methods: four plain appends, no abstract mark.
MergeIntoEnum(entry, info) ==
    [PushAttrs(entry, info.attrs) EXCEPT
        !.getters = @ \o [i \in 1..Len(info.getters) |->
                            MemberDefFromAccessor(info.getters[i])],
        !.setters = @ \o [i \in 1..Len(info.setters) |->
                            MemberDefFromAccessor(info.setters[i])],
        !.methods = @ \o [i \in 1..Len(info.methods) |->
                            MethodDefFrom(info.methods[i])]]

\* The modules add_methods would stop at: those holding the key as class or enum.
Holders(mods, struct_id) ==
    {m \in DOMAIN mods :
        struct_id \in DOMAIN mods[m].class \/ struct_id \in DOMAIN mods[m].enum_}

\* Mutant of add_methods: a block whose key is missing is skipped, not fatal.
add_methods_skip_missing(mods, info) ==
    LET struct_id == info.struct_id
        holders   == Holders(mods, struct_id)
    IN  IF holders = {}
        THEN [panic |-> FALSE, modules |-> mods]
        ELSE LET m == CHOOSE h \in holders :
                          \A o \in holders : o = h \/ StrLess(h, o)
             IN  IF struct_id \in DOMAIN mods[m].class
                 THEN [panic |-> FALSE,
                       modules |-> [mods EXCEPT ![m].class[struct_id] =
                                        MergeIntoClass(@, info)]]
                 ELSE [panic |-> FALSE,
                       modules |-> [mods EXCEPT ![m].enum_[struct_id] =
                                        MergeIntoEnum(@, info)]]

\* Mutant of add_methods: a class of any module is preferred to an enum.
add_methods_class_anywhere(mods, info) ==
    LET struct_id == info.struct_id
        holders   == Holders(mods, struct_id)
        classes   == {m \in holders : struct_id \in DOMAIN mods[m].class}
        first(S)  == CHOOSE h \in S : \A o \in S : o = h \/ StrLess(h, o)
    IN  IF holders = {}
        THEN [panic |-> TRUE, modules |-> mods]
        ELSE IF classes # {}
        THEN [panic |-> FALSE,
              modules |-> [mods EXCEPT ![first(classes)].class[struct_id] =
                               MergeIntoClass(@, info)]]
        ELSE [panic |-> FALSE,
              modules |-> [mods EXCEPT ![first(holders)].enum_[struct_id] =
                               MergeIntoEnum(@, info)]]

\* add_methods: merge into the first module in key order that holds the key,
\* its class map before its enum map; unreachable!() when no module does.
add_methods(mods, info) ==
    LET struct_id == info.struct_id
        holders   == Holders(mods, struct_id)
    IN  IF holders = {}
        THEN [panic |-> TRUE, modules |-> mods]
        ELSE LET m == CHOOSE h \in holders :
                          \A o \in holders : o = h \/ StrLess(h, o)
             IN  IF struct_id \in DOMAIN mods[m].class
                 THEN [panic |-> FALSE,
                       modules |-> [mods EXCEPT ![m].class[struct_id] =
                                        MergeIntoClass(@, info)]]
                 ELSE [panic |-> FALSE,
                       modules |-> [mods EXCEPT ![m].enum_[struct_id] =
                                        MergeIntoEnum(@, info)]]

\* Mutant of SubmoduleMap: every nested module is filed under its first segment.
SubmoduleMapTopLevel(mods) ==
    LET nested == {k \in DOMAIN mods : Len(Split(k, {"."})) > 1}
        Parent(k) == Split(k, {"."})[1]
        Child(k)  == LET path == Split(k, {"."}) IN path[Len(path)]
    IN  [p \in {Parent(k) : k \in nested} |->
            {Child(k) : k \in {c \in nested : Parent(c) = p}}]

\* First loop of register_submodules: parent name -> names of its children.
SubmoduleMap(mods) ==
    LET nested == {k \in DOMAIN mods : Len(Split(k, {"."})) > 1}
        Parent(k) == LET path == Split(k, {"."})
                     IN  Join(SubSeq(path, 1, Len(path) - 1), <<".">>)
        Child(k)  == LET path == Split(k, {"."}) IN path[Len(path)]
    IN  [p \in {Parent(k) : k \in nested} |->
            {Child(k) : k \in {c \in nested : Parent(c) = p}}]

\* register_submodules: the children are added to the parents that exist.
register_submodules(mods) ==
    LET map == SubmoduleMap(mods)
    IN  [m \in DOMAIN mods |->
            IF m \in DOMAIN map
            THEN [mods[m] EXCEPT !.submodules = @ \cup map[m]]
            ELSE mods[m]]

(* ------------------------------------------------------------------ *)
(* Self-import strategy (generate/stub_info.rs)                        *)
(* ------------------------------------------------------------------ *)

U8Max == 255

Digits == {"0", "1", "2", "3", "4", "5", "6", "7", "8", "9"}

\* str::trim, for the whitespace a constraint holds.
RECURSIVE Trim(_)
Trim(s) ==
    IF s # <<>> /\ Head(s) = " " THEN Trim(Tail(s))
    ELSE IF s # <<>> /\ s[Len(s)] = " " THEN Trim(SubSeq(s, 1, Len(s) - 1))
    ELSE s

\* str::trim_start_matches(char)
RECURSIVE TrimStartMatches(_, _)
TrimStartMatches(s, c) ==
    IF s # <<>> /\ Head(s) = c THEN TrimStartMatches(Tail(s), c) ELSE s

\* str::trim_end_matches(&str)
RECURSIVE TrimEndMatches(_, _)
TrimEndMatches(s, suffix) ==
    IF Len(s) >= Len(suffix) /\ SubSeq(s, Len(s) - Len(suffix) + 1, Len(s)) = suffix
    THEN TrimEndMatches(SubSeq(s, 1, Len(s) - Len(suffix)), suffix)
    ELSE s

\* str::strip_prefix
StripPrefix(s, prefix) ==
    IF Len(s) >= Len(prefix) /\ SubSeq(s, 1, Len(prefix)) = prefix
    THEN Some(SubSeq(s, Len(prefix) + 1, Len(s)))
    ELSE None

RECURSIVE DecimalValue(_)
DecimalValue(s) ==
    IF s = <<>> THEN 0
    ELSE 10 * DecimalValue(SubSeq(s, 1, Len(s) - 1)) + (CharCode[s[Len(s)]] - CharCode["0"])

\* str::parse::<u8>(): an optional '+', then digits only, of a value that fits.
ParseU8(s) ==
    LET digits == IF s # <<>> /\ Head(s) = "+" THEN Tail(s) ELSE s
    IN  IF digits = <<>> \/ \E i \in 1..Len(digits) : digits[i] \notin Digits
        THEN None
        ELSE IF DecimalValue(digits) > U8Max THEN None
        ELSE Some(DecimalValue(digits))

\* Mutant of max_version: the minor number alone decides.
max_version_minor_only(a, b) == IF b[2] > a[2] THEN b ELSE a

max_version(a, b) ==
    IF b[1] > a[1] \/ (b[1] = a[1] /\ b[2] > a[2]) THEN b ELSE a

parse_python_version_fragment(fragment) ==
    LET c1 == Trim(TrimStartMatches(Trim(fragment), "="))
        c2 == TrimStartMatches(c1, "v")
        c3 == TrimEndMatches(c2, <<".", "*">>)
        cleaned == TrimEndMatches(c3, <<"*">>)
        parts == Split(cleaned, {"."})
        major == ParseU8(parts[1])
        minor_raw == Trim(IF Len(parts) >= 2 THEN parts[2] ELSE <<"0">>)
        minor_part ==
            IF \E i \in 1..Len(minor_raw) : minor_raw[i] \notin Digits
            THEN SubSeq(minor_raw, 1,
                        (CHOOSE i \in 1..Len(minor_raw) :
                            /\ minor_raw[i] \notin Digits
                            /\ \A j \in 1..(i - 1) : minor_raw[j] \in Digits) - 1)
            ELSE minor_raw
        minor == IF minor_part = <<>> THEN Some(0) ELSE ParseU8(minor_part)
    IN  IF major = None \/ minor = None THEN None
        ELSE Some(<<major[1], minor[1]>>)

\* The candidate version of one token of the constraint.
Candidate(token) ==
    IF StripPrefix(token, <<">", "=">>) # None
    THEN parse_python_version_fragment(StripPrefix(token, <<">", "=">>)[1])
    ELSE IF StripPrefix(token, <<"=", "=">>) # None
    THEN parse_python_version_fragment(StripPrefix(token, <<"=", "=">>)[1])
    ELSE IF StripPrefix(token, <<"~", "=">>) # None
    THEN parse_python_version_fragment(StripPrefix(token, <<"~", "=">>)[1])
    ELSE None

\* The loop of parse_minimum_python_version over the pieces of the constraint.
RECURSIVE ScanTokens(_, _)
ScanTokens(minimum, pieces) ==
    IF pieces = <<>> THEN minimum
    ELSE LET token == Trim(Head(pieces))
             candidate == IF token = <<>> THEN None ELSE Candidate(token)
             next == IF candidate = None THEN minimum
                     ELSE IF minimum = None THEN candidate
                     ELSE Some(max_version(minimum[1], candidate[1]))
         IN  ScanTokens(next, Tail(pieces))

parse_minimum_python_version(spec) == ScanTokens(None, Split(spec, {",", " "}))

\* Mutant of SelectStrategy: 3.11 itself still gets the older spelling.
SelectStrategyAbove311(version) ==
    IF version[1] > 3 \/ (version[1] = 3 /\ version[2] > 11)
    THEN "Typing" ELSE "TypingExtensions"

\* The strategy configure_self_import_strategy_from_requires_python picks for a
\* minimum version.
SelectStrategy(version) ==
    IF version[1] > 3 \/ (version[1] = 3 /\ version[2] >= 11)
    THEN "Typing" ELSE "TypingExtensions"

\* spec.and_then(parse_minimum_python_version)
MinVersionOf(spec) ==
    IF spec = None THEN None ELSE parse_minimum_python_version(spec[1])

\* The strategy configure_self_import_strategy_from_requires_python sets.
ConfiguredStrategy(spec) ==
    IF MinVersionOf(spec) # None THEN SelectStrategy(MinVersionOf(spec)[1]) ELSE "Typing"

MaxTokens == 2      \* constraints in a requires-python string

GE == <<">", "=">>
EQ == <<"=", "=">>
CE == <<"~", "=">>
LT == <<"<">>
GT == <<">">>

\* Constraints, each with the version it is to count as (None: to be skipped).
Tokens ==
    { [text |-> GE \o <<"3", ".", "1", "1">>,           expect |-> Some(<<3, 11>>)],
      [text |-> GE \o <<"3", ".", "1", "0">>,           expect |-> Some(<<3, 10>>)],
      [text |-> GE \o <<"3", ".", "8">>,                expect |-> Some(<<3, 8>>)],
      [text |-> GE \o <<"3">>,                          expect |-> Some(<<3, 0>>)],
      [text |-> GE \o <<"4", ".", "0">>,                expect |-> Some(<<4, 0>>)],
      [text |-> GE \o <<"2", ".", "1", "2">>,           expect |-> Some(<<2, 12>>)],
      [text |-> GE \o <<"v", "3", ".", "9">>,           expect |-> Some(<<3, 9>>)],
      [text |-> GE \o <<"3", ".", "1", "1", "r", "c", "1">>, expect |-> Some(<<3, 11>>)],
      [text |-> GE \o <<"3", "0", "0", ".", "1">>,      expect |-> None],
      [text |-> GE \o <<"3", ".", "2", "5", "6">>,      expect |-> None],
      [text |-> GE \o <<"a">>,                          expect |-> None],
      [text |-> GE,                                     expect |-> None],
      [text |-> EQ \o <<"3", ".", "1", "2">>,           expect |-> Some(<<3, 12>>)],
      [text |-> EQ \o <<"3", ".", "*">>,                expect |-> Some(<<3, 0>>)],
      [text |-> CE \o <<"3", ".", "1", "1", ".", "0">>, expect |-> Some(<<3, 11>>)],
      [text |-> CE \o <<"3", ".", "8">>,                expect |-> Some(<<3, 8>>)],
      [text |-> LT \o <<"3", ".", "1", "2">>,           expect |-> None],
      [text |-> LT \o <<"4">>,                          expect |-> None],
      [text |-> GT \o <<"3", ".", "1", "1">>,           expect |-> None],
      [text |-> <<"3", ".", "1", "1">>,                 expect |-> None] }

Separators == {<<",">>, <<" ">>, <<",", " ">>}

\* The requires-python string written from constraints and a separator.
ConstraintText(ts, sep) == Join([i \in 1..Len(ts) |-> ts[i].text], sep)

(* ------------------------------------------------------------------ *)
(* The registry: descriptors submitted at load time                    *)
(* ------------------------------------------------------------------ *)

MaxRegistry == 3    \* descriptors in a registry without methods blocks
MaxMembers  == 2    \* attributes, getters, setters and methods over all blocks

Keys == {1, 2}      \* identity keys (TypeId values)

ClassInfos == [struct_id : Keys, module : {None, Some(ModAB)}, pyclass_name : {"C"}]
ComplexEnumInfos == [enum_id : Keys, module : {None}, pyclass_name : {"X"}]
EnumInfos == [enum_id : Keys, module : {None, Some(ModAB)}, pyclass_name : {"E"}]
FunctionInfos ==
    [name : {"f"}, module : {None}, return : {"int", "str"}]
        \cup [name : {"g"}, module : {Some(ModABC)}, return : {"int"}]
VariableInfos == [name : {"v"}, module : {ModA}, type : {"int", "str"}]
ModuleDocInfos == [module : {ModA}, doc : {"d1", "d2"}] \cup [module : {ModABC}, doc : {"d1"}]

AttrInfos   == [name : {"x", "y"}, type : {"int"}]
GetterInfos == [name : {"x", "y"}, type : {"int"}, is_abstract : BOOLEAN]
SetterInfos == [name : {"x", "y"}, type : {"int"}, is_abstract : BOOLEAN]
MethodInfos ==
    [name : {"x"}, return : {"int"}, type : {"Instance"}, is_abstract : BOOLEAN]
        \cup [name : {"y"}, return : {"int"}, type : {"New"}, is_abstract : {FALSE}]

SeqsOfLen(S, n) == [1..n -> S]
SeqsUpTo(S, n) == UNION {SeqsOfLen(S, k) : k \in 0..n}

Weight(block) ==
    Len(block.attrs) + Len(block.getters) + Len(block.setters) + Len(block.methods)

\* PyMethodsInfo values with k members.
BlocksOfWeight(k) ==
    UNION {
        [struct_id : Keys,
         attrs   : SeqsOfLen(AttrInfos, n[1]),
         getters : SeqsOfLen(GetterInfos, n[2]),
         setters : SeqsOfLen(SetterInfos, n[3]),
         methods : SeqsOfLen(MethodInfos, n[4])] :
            n \in {c \in [1..4 -> 0..k] : c[1] + c[2] + c[3] + c[4] = k} }

\* Sequences of blocks whose i-th block has w[i] members.
RECURSIVE BlockSeqsOf(_)
BlockSeqsOf(w) ==
    IF w = <<>> THEN {<<>>}
    ELSE {<<b>> \o rest : b \in BlocksOfWeight(Head(w)), rest \in BlockSeqsOf(Tail(w))}

RECURSIVE Sum(_)
Sum(w) == IF w = <<>> THEN 0 ELSE Head(w) + Sum(Tail(w))

\* Member counts of the blocks of a registry: non-empty blocks with at most
\* MaxMembers members in all, or a single empty block.
BlockWeights ==
    {v \in SeqsUpTo(1..MaxMembers, MaxMembers) : Sum(v) <= MaxMembers} \cup {<<0>>}

NoShapes == [classes |-> <<>>, complex_enums |-> <<>>, enums |-> <<>>]

\* The shapes the methods blocks are merged into.
MergeShapes ==
    LET C(k, m) == [struct_id |-> k, module |-> m, pyclass_name |-> "C"]
        X(k, m) == [enum_id |-> k, module |-> m, pyclass_name |-> "X"]
        E(k, m) == [enum_id |-> k, module |-> m, pyclass_name |-> "E"]
    IN  { NoShapes,
          [NoShapes EXCEPT !.classes = <<C(1, None)>>],
          [NoShapes EXCEPT !.complex_enums = <<X(1, None)>>],
          [NoShapes EXCEPT !.enums = <<E(1, None)>>],
          [NoShapes EXCEPT !.classes = <<C(1, Some(ModAB))>>, !.enums = <<E(2, None)>>],
          [NoShapes EXCEPT !.classes = <<C(1, Some(ModAB))>>, !.enums = <<E(1, None)>> ] }

\* Descriptor counts per kind of a registry without methods blocks.
ShapeLens ==
    {l \in [1..6 -> 0..MaxRegistry] :
        l[1] + l[2] + l[3] + l[4] + l[5] + l[6] <= MaxRegistry}

\* A registry of shape and module-level descriptors only.
IsShapeRegistry(reg) ==
    \E l \in ShapeLens :
        \E c \in SeqsOfLen(ClassInfos, l[1]), x \in SeqsOfLen(ComplexEnumInfos, l[2]),
           e \in SeqsOfLen(EnumInfos, l[3]), f \in SeqsOfLen(FunctionInfos, l[4]),
           v \in SeqsOfLen(VariableInfos, l[5]), d \in SeqsOfLen(ModuleDocInfos, l[6]) :
            reg = [classes |-> c, complex_enums |-> x, enums |-> e, functions |-> f,
                   variables |-> v, module_docs |-> d, methods |-> <<>>]

\* A registry of a few shapes and the methods blocks merged into them.
IsMergeRegistry(reg) ==
    \E s \in MergeShapes, w \in BlockWeights :
        \E b \in BlockSeqsOf(w) :
            reg = [classes |-> s.classes, complex_enums |-> s.complex_enums,
                   enums |-> s.enums, functions |-> <<>>, variables |-> <<>>,
                   module_docs |-> <<>>, methods |-> b]

(* ------------------------------------------------------------------ *)
(* build(): the loops over the registry                                *)
(* ------------------------------------------------------------------ *)

\* Mutant of Passes: the methods blocks are processed first.
PassesMethodsFirst == <<"methods", "classes", "complex_enums", "enums", "functions",
                        "variables", "module_docs">>

Passes == <<"classes", "complex_enums", "enums", "functions", "variables",
            "module_docs", "methods">>

PassIndex(p) == CHOOSE k \in 1..Len(Passes) : Passes[k] = p

\* The first pass from the k-th on that has a descriptor, else the final step.
RECURSIVE PassFrom(_, _)
PassFrom(reg, k) ==
    IF k > Len(Passes) THEN "register_submodules"
    ELSE IF Len(reg[Passes[k]]) > 0 THEN Passes[k]
    ELSE PassFrom(reg, k + 1)

\* Where build() stands after the i-th descriptor of pass p.
After(reg, p, i) ==
    IF i < Len(reg[p]) THEN <<p, i + 1>> ELSE <<PassFrom(reg, PassIndex(p) + 1), 1>>

Advance ==
    /\ pc' = After(registry, pc, idx)[1]
    /\ idx' = After(registry, pc, idx)[2]
    /\ UNCHANGED <<registry, versionVars, unionVars, generateVars>>

\* No build is running.
BuilderIdle ==
    /\ registry = [classes |-> <<>>, complex_enums |-> <<>>, enums |-> <<>>,
                   functions |-> <<>>, variables |-> <<>>, module_docs |-> <<>>,
                   methods |-> <<>>]
    /\ modules = EmptyMap
    /\ pc = "idle"
    /\ idx = 1

\* No pyproject.toml was read.
VersionIdle ==
    /\ requires_python = None
    /\ tokens = <<>>
    /\ strategy = "Typing"
    /\ min_version = None
    /\ configured = FALSE

\* The derive macro is not expanding an enum.
UnionIdle ==
    /\ enum_info = None
    /\ stub_type = None
    /\ impl_tokens = None

\* Nothing is being rendered or synthesized.
GenerateIdle ==
    /\ display_method = None
    /\ rendered = None
    /\ variant_info = None
    /\ variant_methods = None

\* StubInfoBuilder::from_project_root, before build().
Init ==
    /\ IsShapeRegistry(registry) \/ IsMergeRegistry(registry)
    /\ modules = EmptyMap
    /\ pc = PassFrom(registry, 1)
    /\ idx = 1
    /\ VersionIdle
    /\ UnionIdle
    /\ GenerateIdle

BuildClasses ==
    /\ pc = "classes"
    /\ modules' = add_class(modules, registry.classes[idx])
    /\ Advance

BuildComplexEnums ==
    /\ pc = "complex_enums"
    /\ modules' = add_complex_enum(modules, registry.complex_enums[idx])
    /\ Advance

BuildEnums ==
    /\ pc = "enums"
    /\ modules' = add_enum(modules, registry.enums[idx])
    /\ Advance

BuildFunctions ==
    /\ pc = "functions"
    /\ modules' = add_function(modules, registry.functions[idx])
    /\ Advance

BuildVariables ==
    /\ pc = "variables"
    /\ modules' = add_variable(modules, registry.variables[idx])
    /\ Advance

BuildModuleDocs ==
    /\ pc = "module_docs"
    /\ modules' = add_module_doc(modules, registry.module_docs[idx])
    /\ Advance

\* A methods block is merged, or the build panics and returns nothing.
BuildMethods ==
    /\ pc = "methods"
    /\ LET r == add_methods(modules, registry.methods[idx])
       IN  IF r.panic
           THEN pc' = "panicked" /\ UNCHANGED <<registry, modules, idx, versionVars, unionVars, generateVars>>
           ELSE modules' = r.modules /\ Advance

\* The last step of build(): submodules are derived and the StubInfo is returned.
BuildFinish ==
    /\ pc = "register_submodules"
    /\ modules' = register_submodules(modules)
    /\ pc' = "done"
    /\ UNCHANGED <<registry, idx, versionVars, unionVars, generateVars>>

Next ==
    \/ BuildClasses
    \/ BuildComplexEnums
    \/ BuildEnums
    \/ BuildFunctions
    \/ BuildVariables
    \/ BuildModuleDocs
    \/ BuildMethods
    \/ BuildFinish

Spec == Init /\ [][Next]_vars

(* ------------------------------------------------------------------ *)
(* register_submodules over modules created in any order               *)
(* ------------------------------------------------------------------ *)

Pkg        == <<"p", "k", "g">>
PkgSub     == Pkg \o <<".", "s", "u", "b">>
PkgSubLeaf == PkgSub \o <<".", "l", "e", "a", "f">>
PkgAlt     == Pkg \o <<".", "a", "l", "t">>

\* Module docs that create the modules of a package, one module per descriptor.
PkgDocInfos == [module : {Pkg, PkgSub, PkgSubLeaf, PkgAlt}, doc : {"d1"}]

\* A registry of module docs only: the order of the descriptors is the order
\* in which get_module creates the modules.
InitSubmodules ==
    /\ \E d \in SeqsUpTo(PkgDocInfos, MaxRegistry) :
          registry = [classes |-> <<>>, complex_enums |-> <<>>, enums |-> <<>>,
                      functions |-> <<>>, variables |-> <<>>, module_docs |-> d,
                      methods |-> <<>>]
    /\ modules = EmptyMap
    /\ pc = PassFrom(registry, 1)
    /\ idx = 1
    /\ VersionIdle
    /\ UnionIdle
    /\ GenerateIdle

\* register_submodules is run once more on the tree build() finished.
RegisterSubmodulesAgain ==
    /\ pc = "done"
    /\ modules' = register_submodules(modules)
    /\ pc' = "done_twice"
    /\ UNCHANGED <<registry, idx, versionVars, unionVars, generateVars>>

NextSubmodules == BuildModuleDocs \/ BuildFinish \/ RegisterSubmodulesAgain

SpecSubmodules == InitSubmodules /\ [][NextSubmodules]_vars

(* ------------------------------------------------------------------ *)
(* from_pyproject_toml: the strategy is configured from requires-python *)
(* ------------------------------------------------------------------ *)

\* A pyproject.toml with or without requires-python was parsed; the process
\* holds either strategy.
InitVersion ==
    /\ BuilderIdle
    /\ UnionIdle
    /\ GenerateIdle
    /\ strategy \in {"Typing", "TypingExtensions"}
    /\ min_version = None
    /\ configured = FALSE
    /\ \/ tokens = <<>> /\ requires_python = None
       \/ \E ts \in SeqsUpTo(Tokens, MaxTokens), sep \in Separators :
             tokens = ts /\ requires_python = Some(ConstraintText(ts, sep))

configure_self_import_strategy_from_requires_python ==
    /\ ~configured
    /\ min_version' = MinVersionOf(requires_python)
    /\ strategy' = ConfiguredStrategy(requires_python)
    /\ configured' = TRUE
    /\ UNCHANGED <<requires_python, tokens, builderVars, unionVars, generateVars>>

NextVersion == configure_self_import_strategy_from_requires_python

SpecVersion == InitVersion /\ [][NextVersion]_vars

(* ------------------------------------------------------------------ *)
(* gen_stub_pyclass_complex_enum: the union type of a tagged enum      *)
(* ------------------------------------------------------------------ *)

MaxVariants == 2    \* variants of a tagged enum

\* Token streams, by what they denote.
TypeInputOf(ty) == [kind |-> "type_input", ty |-> ty]
TypeInfoNamed(repr) == [kind |-> "TypeInfo", name |-> repr]
Unqualified(name) == [kind |-> "unqualified", name |-> name]
UnionOf(acc, expr) == [kind |-> "or", left |-> acc, right |-> expr]
LocallyDefined(name, module_tt) ==
    [kind |-> "locally_defined", name |-> name, module |-> module_tt]

RustType(ty) == [kind |-> "RustType", type |-> ty]
OverrideType(repr) == [kind |-> "OverrideType", type_repr |-> repr]

\* Mutant of union_type_for_variant: a one-field variant of any form gives its
\* field's type.
union_type_for_variant_any_form(enum_name, variant) ==
    IF Len(variant.constr_args) = 1
    THEN LET arg == variant.constr_args[1]
         IN  IF arg.type.kind = "RustType"
             THEN TypeInputOf(arg.type.type)
             ELSE TypeInfoNamed(arg.type.type_repr)
    ELSE Unqualified(enum_name \o "." \o variant.pyclass_name)

union_type_for_variant(enum_name, variant) ==
    IF variant.form = "Tuple" /\ Len(variant.constr_args) = 1
    THEN LET arg == variant.constr_args[1]
         IN  IF arg.type.kind = "RustType"
             THEN TypeInputOf(arg.type.type)
             ELSE TypeInfoNamed(arg.type.type_repr)
    ELSE Unqualified(enum_name \o "." \o variant.pyclass_name)

\* iter.fold(first, |acc, expr| quote! { (#acc) | (#expr) })
RECURSIVE FoldUnion(_, _)
FoldUnion(acc, rest) ==
    IF rest = <<>> THEN acc
    ELSE FoldUnion(UnionOf(acc, Head(rest)), Tail(rest))

\* From<&PyComplexEnumInfo> for StubType
StubTypeFrom(i) ==
    LET union_terms ==
            [k \in 1..Len(i.variants) |-> union_type_for_variant(i.pyclass_name, i.variants[k])]
        type_union ==
            IF union_terms # <<>>
            THEN Some(FoldUnion(Head(union_terms), Tail(union_terms)))
            ELSE None
    IN  [ty |-> i.enum_type, name |-> i.pyclass_name, module |-> i.module,
         type_input_override |-> type_union, type_output_override |-> type_union]

\* Mutant of to_tokens: the input position ignores its override.
to_tokens_input_not_overridden(st) ==
    LET module_tt == IF st.module # None THEN [kind |-> "into", value |-> st.module[1]]
                     ELSE [kind |-> "default"]
        default_output == LocallyDefined(st.name, module_tt)
        type_output_tokens ==
            IF st.type_output_override # None THEN st.type_output_override[1]
            ELSE default_output
    IN  [impl_for |-> st.ty, type_output |-> type_output_tokens,
         type_input |-> default_output]

\* ToTokens for StubType
to_tokens(st) ==
    LET module_tt == IF st.module # None THEN [kind |-> "into", value |-> st.module[1]]
                     ELSE [kind |-> "default"]
        default_output == LocallyDefined(st.name, module_tt)
        type_output_tokens ==
            IF st.type_output_override # None THEN st.type_output_override[1]
            ELSE default_output
        type_input_tokens ==
            IF st.type_input_override # None THEN st.type_input_override[1]
            ELSE type_output_tokens
    IN  [impl_for |-> st.ty, type_output |-> type_output_tokens,
         type_input |-> type_input_tokens]

\* Constructor arguments of a variant, by form.
F64Arg == [name |-> "_0", type |-> RustType("f64")]
FloatArg == [name |-> "_0", type |-> OverrideType("float")]
StrArg == [name |-> "_1", type |-> RustType("String")]
RadiusArg == [name |-> "radius", type |-> RustType("f64")]
WidthArg == [name |-> "width", type |-> OverrideType("float")]

VariantShapes ==
    { [form |-> "Unit", constr_args |-> <<>>] }
    \cup { [form |-> "Tuple", constr_args |-> a] :
              a \in {<<>>, <<F64Arg>>, <<FloatArg>>, <<F64Arg, StrArg>>, <<FloatArg, StrArg>>} }
    \cup { [form |-> "Struct", constr_args |-> a] :
              a \in {<<>>, <<RadiusArg>>, <<WidthArg>>, <<RadiusArg, WidthArg>>} }

VariantInfos ==
    { [pyclass_name |-> n, form |-> sh.form, constr_args |-> sh.constr_args] :
          n \in {"circle", "center"}, sh \in VariantShapes }

EnumHeads ==
    { [pyclass_name |-> "Shape", enum_type |-> "PyShape"],
      [pyclass_name |-> "S", enum_type |-> "S"] }

\* The macro parsed a tagged enum.
InitUnion ==
    /\ BuilderIdle
    /\ VersionIdle
    /\ GenerateIdle
    /\ \E h \in EnumHeads, m \in {None, Some("shapes")},
          vs \in SeqsUpTo(VariantInfos, MaxVariants) :
             enum_info = Some([pyclass_name |-> h.pyclass_name, enum_type |-> h.enum_type,
                          module |-> m, variants |-> vs])
    /\ stub_type = None
    /\ impl_tokens = None

\* StubType::from(&info)
BuildStubType ==
    /\ enum_info # None
    /\ stub_type = None
    /\ stub_type' = Some(StubTypeFrom(enum_info[1]))
    /\ UNCHANGED <<enum_info, impl_tokens, builderVars, versionVars, generateVars>>

\* stub_type.to_tokens(..)
EmitImpl ==
    /\ stub_type # None
    /\ impl_tokens = None
    /\ impl_tokens' = Some(to_tokens(stub_type[1]))
    /\ UNCHANGED <<enum_info, stub_type, builderVars, versionVars, generateVars>>

NextUnion == BuildStubType \/ EmitImpl

SpecUnion == InitUnion /\ [][NextUnion]_vars

(* ------------------------------------------------------------------ *)
(* Display for MethodDef (generate/method.rs)                          *)
(* ------------------------------------------------------------------ *)

\* Text is the sequence of the pieces written; "\n" ends a line.
NL == "\n"

\* indent(): one level of indentation.
indent == "    "

\* Display of a RuleName parsed from a known rule name.
RuleNameText(rule) == rule

\* docstring::write_docstring: the quoted docstring on lines of its own.
write_docstring(doc, ind) ==
    <<ind, "\"\"\"", NL, ind, doc, NL, ind, "\"\"\"", NL>>

\* if let Some(deprecated) = &self.deprecated { writeln!(..) }
DeprecatedLine(m) ==
    IF m.deprecated # None THEN <<indent, m.deprecated[1], NL>> ELSE <<>>

\* params_str: the parameters after a receiver.
params_str(m) == IF m.parameters = "" THEN <<>> ELSE <<", ", m.parameters>>

async_(m) == IF m.is_async THEN "async " ELSE ""

AbstractLine(m) == IF m.is_abstract THEN <<indent, "@abc.abstractmethod", NL>> ELSE <<>>

\* Mutant of SignatureHead: the abstract marker is written before the kind marker.
SignatureHeadAbstractFirst(m) ==
    CASE m.type = "Static" ->
            AbstractLine(m) \o <<indent, "@staticmethod", NL>>
                \o <<indent, async_(m), "def ", m.name, "(", m.parameters, ")">>
      [] m.type \in {"Class", "New"} ->
            AbstractLine(m)
                \o (IF m.type = "Class" THEN <<indent, "@classmethod", NL>> ELSE <<>>)
                \o <<indent, async_(m), "def ", m.name, "(", "cls">> \o params_str(m) \o <<")">>
      [] m.type = "Instance" ->
            AbstractLine(m)
                \o <<indent, async_(m), "def ", m.name, "(", "self">> \o params_str(m) \o <<")">>

\* match self.r#type { .. }: the markers and the signature up to ")".
SignatureHead(m) ==
    CASE m.type = "Static" ->
            <<indent, "@staticmethod", NL>> \o AbstractLine(m)
                \o <<indent, async_(m), "def ", m.name, "(", m.parameters, ")">>
      [] m.type \in {"Class", "New"} ->
            (IF m.type = "Class" THEN <<indent, "@classmethod", NL>> ELSE <<>>)
                \o AbstractLine(m)
                \o <<indent, async_(m), "def ", m.name, "(", "cls">> \o params_str(m) \o <<")">>
      [] m.type = "Instance" ->
            AbstractLine(m)
                \o <<indent, async_(m), "def ", m.name, "(", "self">> \o params_str(m) \o <<")">>

RECURSIVE RulesStr(_)
RulesStr(rules) ==
    IF rules = <<>> THEN ""
    ELSE IF Len(rules) = 1 THEN RuleNameText(rules[1])
    ELSE RuleNameText(rules[1]) \o "," \o RulesStr(Tail(rules))

\* type_ignore_comment: Option of the comment's pieces.
type_ignore_comment(m) ==
    IF m.type_ignored = None THEN None
    ELSE IF m.type_ignored[1].kind = "All" THEN Some(<<"  # type: ignore">>)
    ELSE Some(<<"  # type: ignore[", RulesStr(m.type_ignored[1].rules), "]">>)

\* Mutant of BodyTail: without a docstring the comment is written before " ...".
BodyTailCommentFirst(m) ==
    LET comment == IF type_ignore_comment(m) # None THEN type_ignore_comment(m)[1] ELSE <<>>
    IN  IF m.doc # ""
        THEN comment \o <<NL>> \o write_docstring(m.doc, indent \o indent)
        ELSE comment \o <<" ...">> \o <<NL>>

\* What follows the return type: comment and docstring, or " ..." and comment.
BodyTail(m) ==
    LET comment == IF type_ignore_comment(m) # None THEN type_ignore_comment(m)[1] ELSE <<>>
    IN  IF m.doc # ""
        THEN comment \o <<NL>> \o write_docstring(m.doc, indent \o indent)
        ELSE <<" ...">> \o comment \o <<NL>>

\* fmt::Display for MethodDef: empty pieces write nothing.
Display(m) ==
    SelectSeq(DeprecatedLine(m) \o SignatureHead(m) \o <<" -> ", m.return, ":">> \o BodyTail(m),
              LAMBDA piece : piece # "")

DeprecatedText == "@typing_extensions.deprecated"

MethodDefs ==
    [name : {"f", "do_work"}, parameters : {"", "x: int"}, return : {"int"},
     doc : {"", "Doc."}, type : {"Static", "Class", "New", "Instance"},
     is_async : BOOLEAN, deprecated : {None, Some(DeprecatedText)},
     type_ignored : {None, Some([kind |-> "All"]),
                     Some([kind |-> "Specified", rules |-> <<"arg-type", "override">>])},
     is_abstract : BOOLEAN]

\* A method of a class is about to be written to the stub file.
InitRender ==
    /\ BuilderIdle
    /\ VersionIdle
    /\ UnionIdle
    /\ display_method \in {Some(m) : m \in MethodDefs}
    /\ rendered = None
    /\ variant_info = None
    /\ variant_methods = None

\* write!(f, "{method}")
fmt ==
    /\ display_method # None
    /\ rendered = None
    /\ rendered' = Some(Display(display_method[1]))
    /\ UNCHANGED <<display_method, variant_info, variant_methods,
                   builderVars, versionVars, unionVars>>

NextRender == fmt

SpecRender == InitRender /\ [][NextRender]_vars

(* ------------------------------------------------------------------ *)
(* get_variant_methods (generate/variant_methods.rs)                   *)
(* ------------------------------------------------------------------ *)

MaxArgs == 2        \* constructor arguments of a variant

\* Parameters::from_infos: one parameter per argument, in order.
ParametersFromInfos(infos) ==
    [i \in 1..Len(infos) |->
        [name |-> infos[i].name, kind |-> infos[i].kind,
         type_info |-> infos[i].type_info, default |-> infos[i].default]]

\* Mutant of get_variant_methods: every variant with fields gets the sequence
\* methods.
get_variant_methods_any_fields(info) ==
    IF info.is_mapping THEN EmptyMap
    ELSE LET new ==
                 [name |-> "__new__", parameters |-> ParametersFromInfos(info.constr_args),
                  return |-> "Self", doc |-> "", type |-> "New", is_async |-> FALSE,
                  deprecated |-> None, type_ignored |-> None, is_abstract |-> FALSE]
             len ==
                 [name |-> "__len__", parameters |-> <<>>,
                  return |-> "int", doc |-> "", type |-> "Instance", is_async |-> FALSE,
                  deprecated |-> None, type_ignored |-> None, is_abstract |-> FALSE]
             getitem ==
                 [name |-> "__getitem__",
                  parameters |-> <<[name |-> "key", kind |-> "PositionalOrKeyword",
                                    type_info |-> "int", default |-> "None"]>>,
                  return |-> "typing.Any", doc |-> "", type |-> "Instance",
                  is_async |-> FALSE,
                  deprecated |-> None, type_ignored |-> None, is_abstract |-> FALSE]
             m1 == Insert(EmptyMap, "__new__",
                          Append(EntryOrDefault(EmptyMap, "__new__", <<>>), new))
         IN  IF info.constr_args # <<>>
             THEN LET m2 == Insert(m1, "__len__",
                                   Append(EntryOrDefault(m1, "__len__", <<>>), len))
                  IN  Insert(m2, "__getitem__",
                             Append(EntryOrDefault(m2, "__getitem__", <<>>), getitem))
             ELSE m1

\* get_variant_methods: the enum info is not read.
get_variant_methods(info) ==
    IF info.is_mapping THEN EmptyMap
    ELSE LET new ==
                 [name |-> "__new__", parameters |-> ParametersFromInfos(info.constr_args),
                  return |-> "Self", doc |-> "", type |-> "New", is_async |-> FALSE,
                  deprecated |-> None, type_ignored |-> None, is_abstract |-> FALSE]
             len ==
                 [name |-> "__len__", parameters |-> <<>>,
                  return |-> "int", doc |-> "", type |-> "Instance", is_async |-> FALSE,
                  deprecated |-> None, type_ignored |-> None, is_abstract |-> FALSE]
             getitem ==
                 [name |-> "__getitem__",
                  parameters |-> <<[name |-> "key", kind |-> "PositionalOrKeyword",
                                    type_info |-> "int", default |-> "None"]>>,
                  return |-> "typing.Any", doc |-> "", type |-> "Instance",
                  is_async |-> FALSE,
                  deprecated |-> None, type_ignored |-> None, is_abstract |-> FALSE]
             m1 == Insert(EmptyMap, "__new__",
                          Append(EntryOrDefault(EmptyMap, "__new__", <<>>), new))
         IN  IF info.form = "Tuple"
             THEN LET m2 == Insert(m1, "__len__",
                                   Append(EntryOrDefault(m1, "__len__", <<>>), len))
                  IN  Insert(m2, "__getitem__",
                             Append(EntryOrDefault(m2, "__getitem__", <<>>), getitem))
             ELSE m1

ArgTypes == {"int", "float", "str"}

\* The constructor arguments of a tuple variant (_0, _1, ..) and of a struct
\* variant (named fields); a unit variant has none.
FieldNames(form) ==
    IF form = "Tuple" THEN <<"_0", "_1", "_2">> ELSE <<"radius", "width", "height">>

ConstrArgs(form) ==
    IF form = "Unit" THEN {<<>>}
    ELSE UNION {
            {[i \in 1..n |-> [name |-> FieldNames(form)[i], kind |-> "PositionalOrKeyword",
                              type_info |-> t[i], default |-> "None"]] :
                t \in SeqsOfLen(ArgTypes, n)} : n \in 0..MaxArgs }

RuntimeVariantInfos ==
    UNION { [pyclass_name : {"circle", "center"}, form : {form}, is_mapping : BOOLEAN,
             constr_args : ConstrArgs(form)] : form \in {"Unit", "Tuple", "Struct"} }

\* A variant of a tagged enum is about to be rendered.
InitVariant ==
    /\ BuilderIdle
    /\ VersionIdle
    /\ UnionIdle
    /\ display_method = None
    /\ rendered = None
    /\ variant_info \in {Some(v) : v \in RuntimeVariantInfos}
    /\ variant_methods = None

SynthesizeVariantMethods ==
    /\ variant_info # None
    /\ variant_methods = None
    /\ variant_methods' = Some(get_variant_methods(variant_info[1]))
    /\ UNCHANGED <<variant_info, display_method, rendered,
                   builderVars, versionVars, unionVars>>

NextVariant == SynthesizeVariantMethods

SpecVariant == InitVariant /\ [][NextVariant]_vars

(* ------------------------------------------------------------------ *)
(* Reading the registry and the module tree                            *)
(* ------------------------------------------------------------------ *)

\* The build returned a StubInfo.
Built == pc = "done"

\* Number of methods blocks add_methods has merged so far.
Merged ==
    IF pc = "methods" \/ pc = "panicked" THEN idx - 1
    ELSE IF pc \in {"register_submodules", "done"} THEN Len(registry.methods)
    ELSE 0

\* Identity keys of the shape descriptors of a registry.
ShapeKeys(reg) ==
    {reg.classes[i].struct_id : i \in 1..Len(reg.classes)}
        \cup {reg.complex_enums[i].enum_id : i \in 1..Len(reg.complex_enums)}
        \cup {reg.enums[i].enum_id : i \in 1..Len(reg.enums)}

\* Number of shape descriptors of a registry that carry the key.
ShapeCount(reg, k) ==
    Cardinality({i \in 1..Len(reg.classes) : reg.classes[i].struct_id = k})
        + Cardinality({i \in 1..Len(reg.complex_enums) : reg.complex_enums[i].enum_id = k})
        + Cardinality({i \in 1..Len(reg.enums) : reg.enums[i].enum_id = k})

\* The key belongs to one shape descriptor only, a class descriptor.
OneClassShape(k) ==
    /\ ShapeCount(registry, k) = 1
    /\ \E i \in 1..Len(registry.classes) : registry.classes[i].struct_id = k

\* The key belongs to one shape descriptor only, stored in a class map.
OneClassMapShape(k) ==
    /\ ShapeCount(registry, k) = 1
    /\ \A i \in 1..Len(registry.enums) : registry.enums[i].enum_id # k

\* The members of one kind ("attrs", "getters", "setters", "methods") of the
\* merged blocks of a key, in the order add_methods met them.
RECURSIVE MembersUpTo(_, _, _)
MembersUpTo(k, field, n) ==
    IF n = 0 THEN <<>>
    ELSE MembersUpTo(k, field, n - 1)
            \o (IF registry.methods[n].struct_id = k
                THEN registry.methods[n][field] ELSE <<>>)

MergedMembers(k, field) == MembersUpTo(k, field, Merged)

\* The modules whose class map holds the key.
ClassModules(k) == {m \in DOMAIN modules : k \in DOMAIN modules[m].class}

\* The class of a key held by one module only.
ClassOf(k) == modules[CHOOSE m \in ClassModules(k) : TRUE].class[k]

Named(members, n) == SelectSeq(members, LAMBDA d : d.name = n)

SameMember(def, info) ==
    def.name = info.name /\ def.type = info.type /\ def.is_abstract = info.is_abstract

(* ------------------------------------------------------------------ *)
(* build() as a function of the registry                               *)
(* ------------------------------------------------------------------ *)

RECURSIVE Fold(_, _, _)
Fold(Op(_, _), acc, seq) ==
    IF seq = <<>> THEN acc ELSE Fold(Op, Op(acc, Head(seq)), Tail(seq))

\* The behaviour pass: stops at the first block whose key is missing.
RECURSIVE FoldMethods(_, _)
FoldMethods(mods, blocks) ==
    IF blocks = <<>> THEN [panic |-> FALSE, modules |-> mods]
    ELSE LET r == add_methods(mods, Head(blocks))
         IN  IF r.panic THEN r ELSE FoldMethods(r.modules, Tail(blocks))

\* The module tree build() returns for a registry, or panic.
BuildAll(reg) ==
    LET shaped ==
            Fold(add_module_doc,
                Fold(add_variable,
                    Fold(add_function,
                        Fold(add_enum,
                            Fold(add_complex_enum,
                                Fold(add_class, EmptyMap, reg.classes),
                                reg.complex_enums),
                            reg.enums),
                        reg.functions),
                    reg.variables),
                reg.module_docs)
        merged == FoldMethods(shaped, reg.methods)
    IN  IF merged.panic THEN merged
        ELSE [panic |-> FALSE, modules |-> register_submodules(merged.modules)]

\* The orders in which a sequence of descriptors can be yielded.
Perms(seq) ==
    {[i \in 1..Len(seq) |-> seq[p[i]]] :
        p \in {q \in [1..Len(seq) -> 1..Len(seq)] :
                  \A i, j \in 1..Len(seq) : q[i] = q[j] => i = j}}

\* The registries holding the same descriptors of each kind in another order.
Reorderings(reg) ==
    {[classes |-> c, complex_enums |-> x, enums |-> e, functions |-> f,
      variables |-> v, module_docs |-> d, methods |-> b] :
        c \in Perms(reg.classes), x \in Perms(reg.complex_enums),
        e \in Perms(reg.enums), f \in Perms(reg.functions),
        v \in Perms(reg.variables), d \in Perms(reg.module_docs),
        b \in Perms(reg.methods)}

(* ------------------------------------------------------------------ *)
(* Claims                                                              *)
(* ------------------------------------------------------------------ *)

\* C1: build() returns the same module tree for every order in which the
\* registry yields the descriptors of each kind.
C1_Determinism ==
    Built => \A other \in Reorderings(registry) :
                BuildAll(other) = [panic |-> FALSE, modules |-> modules]

\* C2 as stated: a class of one class descriptor and one or more methods blocks
\* exists once, in the module its descriptor names, and holds every attribute,
\* getter, setter and method of those blocks, nothing lost and nothing added.
C2_MergeKeepsEverything ==
    Built =>
      \A k \in Keys :
        (OneClassShape(k) /\ \E i \in 1..Len(registry.methods) :
                                registry.methods[i].struct_id = k) =>
          /\ \E i \in 1..Len(registry.classes) :
                /\ registry.classes[i].struct_id = k
                /\ ClassModules(k) = {ModuleNameOf(registry.classes[i].module)}
          /\ LET c == ClassOf(k)
                 attrs   == MergedMembers(k, "attrs")
                 getters == MergedMembers(k, "getters")
                 setters == MergedMembers(k, "setters")
                 methods == MergedMembers(k, "methods")
             IN  /\ Len(c.attrs) = Len(attrs)
                 /\ \A i \in 1..Len(attrs) :
                        c.attrs[i].name = attrs[i].name /\ c.attrs[i].type = attrs[i].type
                 /\ \A i \in 1..Len(getters) :
                        /\ getters[i].name \in DOMAIN c.getter_setters
                        /\ c.getter_setters[getters[i].name][1] # None
                        /\ SameMember(c.getter_setters[getters[i].name][1][1], getters[i])
                 /\ \A i \in 1..Len(setters) :
                        /\ setters[i].name \in DOMAIN c.getter_setters
                        /\ c.getter_setters[setters[i].name][2] # None
                        /\ SameMember(c.getter_setters[setters[i].name][2][1], setters[i])
                 /\ \A n \in DOMAIN c.getter_setters :
                        /\ c.getter_setters[n][1] # None =>
                              \E i \in 1..Len(getters) :
                                  SameMember(c.getter_setters[n][1][1], getters[i])
                        /\ c.getter_setters[n][2] # None =>
                              \E i \in 1..Len(setters) :
                                  SameMember(c.getter_setters[n][2][1], setters[i])
                 /\ DOMAIN c.methods = {methods[i].name : i \in 1..Len(methods)}
                 /\ \A n \in DOMAIN c.methods :
                        Len(c.methods[n]) = Len(Named(methods, n))

\* C2 amended: as above, but the getter side and the setter side of a name hold
\* the last getter and the last setter descriptor of that name that was merged;
\* an earlier one of the same name is replaced.
C2_MergeKeepsLastAccessor ==
    Built =>
      \A k \in Keys :
        (OneClassShape(k) /\ \E i \in 1..Len(registry.methods) :
                                registry.methods[i].struct_id = k) =>
          /\ \E i \in 1..Len(registry.classes) :
                /\ registry.classes[i].struct_id = k
                /\ ClassModules(k) = {ModuleNameOf(registry.classes[i].module)}
          /\ LET c == ClassOf(k)
                 attrs   == MergedMembers(k, "attrs")
                 getters == MergedMembers(k, "getters")
                 setters == MergedMembers(k, "setters")
                 methods == MergedMembers(k, "methods")
                 LastOf(members, n) == Named(members, n)[Len(Named(members, n))]
             IN  /\ Len(c.attrs) = Len(attrs)
                 /\ \A i \in 1..Len(attrs) :
                        c.attrs[i].name = attrs[i].name /\ c.attrs[i].type = attrs[i].type
                 /\ DOMAIN c.getter_setters =
                        {getters[i].name : i \in 1..Len(getters)}
                            \cup {setters[i].name : i \in 1..Len(setters)}
                 /\ \A n \in DOMAIN c.getter_setters :
                        /\ IF Named(getters, n) = <<>>
                           THEN c.getter_setters[n][1] = None
                           ELSE /\ c.getter_setters[n][1] # None
                                /\ SameMember(c.getter_setters[n][1][1], LastOf(getters, n))
                        /\ IF Named(setters, n) = <<>>
                           THEN c.getter_setters[n][2] = None
                           ELSE /\ c.getter_setters[n][2] # None
                                /\ SameMember(c.getter_setters[n][2][1], LastOf(setters, n))
                 /\ DOMAIN c.methods = {methods[i].name : i \in 1..Len(methods)}
                 /\ \A n \in DOMAIN c.methods :
                        Len(c.methods[n]) = Len(Named(methods, n))

\* C2 witness: a built class that received a getter from one block and a
\* different getter of the same name from a later block, which it holds.
C2_Witness ==
    /\ Built
    /\ OneClassShape(1)
    /\ Len(registry.methods) = 2
    /\ \A i \in 1..2 : registry.methods[i].struct_id = 1
    /\ Len(registry.methods[1].getters) = 1
    /\ Len(registry.methods[2].getters) = 1
    /\ registry.methods[1].getters[1] # registry.methods[2].getters[1]
    /\ SameMember(ClassOf(1).getter_setters["x"][1][1], registry.methods[2].getters[1])

\* C3: the list a class keeps under a method name holds one entry per merged
\* method descriptor of that name, in the order add_methods met them; equal
\* descriptors give equal entries, both kept.
C3_OverloadGrouping ==
    \A k \in Keys :
      (OneClassMapShape(k) /\ ClassModules(k) # {}) =>
        LET c == ClassOf(k)
            methods == MergedMembers(k, "methods")
        IN  \A n \in {"x", "y"} :
              LET expected == Named(methods, n)
                  listed == EntryOrDefault(c.methods, n, <<>>)
              IN  /\ (n \in DOMAIN c.methods) <=> (expected # <<>>)
                  /\ Len(listed) = Len(expected)
                  /\ \A i \in 1..Len(listed) :
                        /\ listed[i].name = n
                        /\ listed[i].is_abstract = expected[i].is_abstract

\* C3 witness: two equal method descriptors of two blocks, listed twice.
C3_Witness ==
    /\ Built
    /\ OneClassMapShape(1)
    /\ Len(registry.methods) = 2
    /\ registry.methods[1] = registry.methods[2]
    /\ registry.methods[1].struct_id = 1
    /\ Len(registry.methods[1].methods) = 1
    /\ registry.methods[1].methods[1].name = "x"
    /\ Len(ClassOf(1).methods["x"]) = 2

\* C4: build() panics at a methods block exactly when no shape descriptor
\* carries the block's key; it never goes past such a block, so no StubInfo is
\* returned for a registry that holds one, and it never panics at a block
\* whose key a class, complex enum or enum descriptor carries.
C4_MissingShapeFailure ==
    /\ pc = "panicked" =>
          registry.methods[idx].struct_id \notin ShapeKeys(registry)
    /\ \A i \in 1..Merged : registry.methods[i].struct_id \in ShapeKeys(registry)
    /\ Built =>
          \A i \in 1..Len(registry.methods) :
              registry.methods[i].struct_id \in ShapeKeys(registry)

\* C4 witness: the build merged one block and panicked at the next, whose key
\* no shape carries.
C4_Witness ==
    /\ pc = "panicked"
    /\ idx = 2
    /\ ShapeKeys(registry) # {}
    /\ Weight(registry.methods[2]) > 0

\* C9: a class is abstract once an abstract getter, setter or method was
\* merged into it, whatever was merged before or after.
C9_AbstractPropagation ==
    \A k \in Keys :
      (OneClassMapShape(k) /\ ClassModules(k) # {}) =>
        LET accessors == MergedMembers(k, "getters") \o MergedMembers(k, "setters")
                            \o MergedMembers(k, "methods")
        IN  (\E i \in 1..Len(accessors) : accessors[i].is_abstract)
                => ClassOf(k).is_abstract

\* C9 witness: an abstract getter replaced by a later non-abstract getter of the
\* same name; the class stays abstract.
C9_Witness ==
    /\ Built
    /\ OneClassMapShape(1)
    /\ Len(registry.methods) = 2
    /\ \A i \in 1..2 : registry.methods[i].struct_id = 1
    /\ Len(registry.methods[1].getters) = 1 /\ registry.methods[1].getters[1].is_abstract
    /\ Len(registry.methods[2].getters) = 1 /\ ~registry.methods[2].getters[1].is_abstract
    /\ ~ClassOf(1).getter_setters["x"][1][1].is_abstract
    /\ ClassOf(1).is_abstract

\* C10: after build, every module whose name has two or more segments is listed,
\* by its last segment, in the submodules of the module named by the other
\* segments, also when no descriptor named that parent.
C10_SubmoduleRule ==
    Built =>
      \A m \in DOMAIN modules :
        LET path == Split(m, {"."})
            parent == Join(SubSeq(path, 1, Len(path) - 1), <<".">>)
        IN  Len(path) >= 2 =>
              /\ parent \in DOMAIN modules
              /\ path[Len(path)] \in modules[parent].submodules

\* a is not below b in the order of (major, minor) pairs.
NotBelow(a, b) == a[1] > b[1] \/ (a[1] = b[1] /\ a[2] >= b[2])

\* The versions the constraints of a requires-python string count as.
CountedVersions == {tokens[i].expect[1] : i \in {j \in 1..Len(tokens) : tokens[j].expect # None}}

\* The greatest of them, None when no constraint counts.
ExpectedMinimum ==
    IF CountedVersions = {} THEN None
    ELSE Some(CHOOSE v \in CountedVersions : \A w \in CountedVersions : NotBelow(v, w))

\* C5: after configuration the strategy is Typing when there is no
\* requires-python, when none of its constraints counts, or when the greatest
\* counted version is at least (3, 11), and TypingExtensions otherwise, whatever
\* the strategy was before.
C5_VersionGating ==
    configured =>
      /\ strategy =
            IF requires_python = None \/ ExpectedMinimum = None
                  \/ NotBelow(ExpectedMinimum[1], <<3, 11>>)
            THEN "Typing" ELSE "TypingExtensions"
      /\ requires_python = Some(<<">", "=", "3", ".", "1", "1">>) => strategy = "Typing"
      /\ requires_python = Some(<<">", "=", "3", ".", "1", "0">>)
            => strategy = "TypingExtensions"
      /\ requires_python =
            Some(<<">", "=", "3", ".", "8", ",", " ", "<", "3", ".", "1", "2">>)
            => strategy = "TypingExtensions"

\* C5 witness: ">=3.8, <3.12" was configured and gave TypingExtensions.
C5_Witness ==
    /\ configured
    /\ requires_python =
          Some(<<">", "=", "3", ".", "8", ",", " ", "<", "3", ".", "1", "2">>)
    /\ strategy = "TypingExtensions"

\* C6: parse_minimum_python_version returns the greatest (major, minor) among
\* the constraints that count (those starting with >=, == or ~= whose rest is a
\* version of 8-bit numbers), skipping the others, and None when none counts;
\* the value depends on the set of constraints only, not on their order.
C6_MinimumVersion ==
    (configured /\ requires_python # None) => min_version = ExpectedMinimum

\* C6 witness: a constraint whose major number exceeds 8 bits was skipped and
\* the other constraint gave the minimum.
C6_Witness ==
    /\ configured
    /\ Len(tokens) = 2
    /\ tokens[1].text = <<">", "=", "3", "0", "0", ".", "1">>
    /\ tokens[2].expect = Some(<<3, 8>>)
    /\ min_version = Some(<<3, 8>>)

\* The terms of a union, leftmost first.
RECURSIVE UnionTerms(_)
UnionTerms(t) ==
    IF t.kind = "or" THEN Append(UnionTerms(t.left), t.right) ELSE <<t>>

\* The union of terms, grouped to the left.
RECURSIVE LeftUnion(_)
LeftUnion(ts) ==
    IF Len(ts) = 1 THEN ts[1]
    ELSE UnionOf(LeftUnion(SubSeq(ts, 1, Len(ts) - 1)), ts[Len(ts)])

\* The term a variant is to contribute.
ExpectedTerm(enum_name, v) ==
    CASE v.form = "Tuple" /\ Len(v.constr_args) = 1 /\ v.constr_args[1].type.kind = "RustType"
            -> TypeInputOf(v.constr_args[1].type.type)
      [] v.form = "Tuple" /\ Len(v.constr_args) = 1 /\ v.constr_args[1].type.kind = "OverrideType"
            -> TypeInfoNamed(v.constr_args[1].type.type_repr)
      [] OTHER
            -> Unqualified(CASE enum_name = "Shape" /\ v.pyclass_name = "circle" -> "Shape.circle"
                             [] enum_name = "Shape" /\ v.pyclass_name = "center" -> "Shape.center"
                             [] enum_name = "S" /\ v.pyclass_name = "circle" -> "S.circle"
                             [] enum_name = "S" /\ v.pyclass_name = "center" -> "S.center")

\* C7: the union built for a tagged enum with variants has exactly one term
\* per variant, in declaration order; a tuple variant with exactly one field
\* contributes its field's type (or its override text), every other variant
\* (unit, tuple with zero or several fields, struct with any number of fields)
\* contributes the reference "EnumName.VariantName".
C7_UnionTermPerVariant ==
    (stub_type # None /\ enum_info[1].variants # <<>>) =>
        /\ stub_type[1].type_output_override # None
        /\ UnionTerms(stub_type[1].type_output_override[1]) =
              [k \in 1..Len(enum_info[1].variants) |->
                  ExpectedTerm(enum_info[1].pyclass_name, enum_info[1].variants[k])]

\* C7 witness: Shape with a struct variant circle{radius} and a tuple variant
\* center(f64) has the union of Shape.circle and f64's type, in that order.
C7_Witness ==
    /\ stub_type # None
    /\ enum_info[1].pyclass_name = "Shape"
    /\ Len(enum_info[1].variants) = 2
    /\ enum_info[1].variants[1] =
          [pyclass_name |-> "circle", form |-> "Struct", constr_args |-> <<RadiusArg>>]
    /\ enum_info[1].variants[2] =
          [pyclass_name |-> "center", form |-> "Tuple", constr_args |-> <<F64Arg>>]
    /\ stub_type[1].type_output_override =
          Some(UnionOf(Unqualified("Shape.circle"), TypeInputOf("f64")))

C8_WitnessEmpty ==
    /\ impl_tokens # None
    /\ enum_info[1].variants = <<>>
    /\ impl_tokens[1].type_input.kind = "locally_defined"

\* The children a module is to list, given the names of all modules.
ExpectedSubmodules(m, names) ==
    (IF m = Pkg /\ PkgSub \in names THEN {<<"s", "u", "b">>} ELSE {})
        \cup (IF m = Pkg /\ PkgAlt \in names THEN {<<"a", "l", "t">>} ELSE {})
        \cup (IF m = PkgSub /\ PkgSubLeaf \in names THEN {<<"l", "e", "a", "f">>} ELSE {})

\* C11: after register_submodules the submodule set of every module is a
\* function of the set of module names alone, whatever the order in which the
\* modules were created, and a second run of register_submodules leaves the
\* tree as it is; for pkg, pkg.sub and pkg.sub.leaf the sets are {sub}, {leaf}
\* and {}.
C11_SubmodulesIdempotent ==
    pc \in {"done", "done_twice"} =>
        /\ \A m \in DOMAIN modules :
              modules[m].submodules = ExpectedSubmodules(m, DOMAIN modules)
        /\ register_submodules(modules) = modules
        /\ DOMAIN modules = {Pkg, PkgSub, PkgSubLeaf} =>
              /\ modules[Pkg].submodules = {<<"s", "u", "b">>}
              /\ modules[PkgSub].submodules = {<<"l", "e", "a", "f">>}
              /\ modules[PkgSubLeaf].submodules = {}

\* C11 witness: the leaf was created first, then pkg, then pkg.sub, and
\* register_submodules has run twice.
C11_Witness ==
    /\ pc = "done_twice"
    /\ Len(registry.module_docs) = 3
    /\ registry.module_docs[1].module = PkgSubLeaf
    /\ registry.module_docs[2].module = Pkg
    /\ registry.module_docs[3].module = PkgSub
    /\ modules[Pkg].submodules = {<<"s", "u", "b">>}
    /\ modules[PkgSub].submodules = {<<"l", "e", "a", "f">>}

\* The lines of a text, without their line ends.
Lines(text) ==
    LET pieces == Split(text, {NL}) IN SubSeq(pieces, 1, Len(pieces) - 1)

\* The rendered method and its lines.
Method == display_method[1]
RenderedLines == Lines(rendered[1])

\* Index of the signature line: the first line holding "def ".
SignatureIndex ==
    CHOOSE i \in 1..Len(RenderedLines) :
        /\ \E j \in 1..Len(RenderedLines[i]) : RenderedLines[i][j] = "def "
        /\ \A k \in 1..(i - 1) : \A j \in 1..Len(RenderedLines[k]) : RenderedLines[k][j] # "def "

SignatureLine == RenderedLines[SignatureIndex]

\* Position of a piece in a line, 0 when absent.
PositionIn(line, piece) ==
    IF \E j \in 1..Len(line) : line[j] = piece
    THEN CHOOSE j \in 1..Len(line) : line[j] = piece /\ \A k \in 1..(j - 1) : line[k] # piece
    ELSE 0

\* Position of the start of the suppression comment in a line, 0 when absent.
CommentPosition(line) ==
    IF PositionIn(line, "  # type: ignore") > 0 THEN PositionIn(line, "  # type: ignore")
    ELSE PositionIn(line, "  # type: ignore[")

\* C12 as stated: with a suppression target and a docstring the comment follows
\* the colon of the return type, ends the signature line, and the docstring block
\* follows on the next lines; with a suppression target and no docstring the comment stands
\* before the empty-body marker "..." on the signature line.
C12_CommentBeforeBody ==
    (rendered # None /\ Method.type_ignored # None) =>
        IF Method.doc # ""
        THEN /\ CommentPosition(SignatureLine) = PositionIn(SignatureLine, ":") + 1
             /\ PositionIn(SignatureLine, ":") > 0
             /\ PositionIn(SignatureLine, " ...") = 0
             /\ CommentPosition(SignatureLine) > 0
             /\ SignatureLine[Len(SignatureLine)] \in {"  # type: ignore", "]"}
             /\ SubSeq(RenderedLines, SignatureIndex + 1, Len(RenderedLines)) =
                    Lines(write_docstring(Method.doc, indent \o indent))
        ELSE /\ CommentPosition(SignatureLine) > 0
             /\ PositionIn(SignatureLine, " ...") > 0
             /\ CommentPosition(SignatureLine) < PositionIn(SignatureLine, " ...")

\* C12 amended: with a docstring as above; with no docstring the signature line
\* reads colon, empty-body marker "...", comment, and the comment ends the line.
C12_CommentPlacement ==
    (rendered # None /\ Method.type_ignored # None) =>
        IF Method.doc # ""
        THEN /\ CommentPosition(SignatureLine) = PositionIn(SignatureLine, ":") + 1
             /\ PositionIn(SignatureLine, ":") > 0
             /\ PositionIn(SignatureLine, " ...") = 0
             /\ CommentPosition(SignatureLine) > 0
             /\ SignatureLine[Len(SignatureLine)] \in {"  # type: ignore", "]"}
             /\ SubSeq(RenderedLines, SignatureIndex + 1, Len(RenderedLines)) =
                    Lines(write_docstring(Method.doc, indent \o indent))
        ELSE /\ PositionIn(SignatureLine, ":") > 0
             /\ PositionIn(SignatureLine, " ...") = PositionIn(SignatureLine, ":") + 1
             /\ CommentPosition(SignatureLine) = PositionIn(SignatureLine, " ...") + 1
             /\ SignatureIndex = Len(RenderedLines)
             /\ SignatureLine[Len(SignatureLine)] \in {"  # type: ignore", "]"}

\* C12 witness: a method with a suppression target and no docstring was written;
\* its last line ends with " ..." and the comment.
C12_Witness ==
    /\ rendered # None
    /\ Method.type_ignored = Some([kind |-> "All"])
    /\ Method.doc = ""
    /\ Method.type = "Instance" /\ Method.name = "f" /\ Method.parameters = ""
    /\ ~Method.is_async /\ ~Method.is_abstract /\ Method.deprecated = None
    /\ rendered[1] = <<indent, "def ", "f", "(", "self", ")", " -> ", "int", ":",
                       " ...", "  # type: ignore", NL>>

\* The marker line of a method kind, if the kind has one.
KindMarker(type) ==
    CASE type = "Static" -> <<"@staticmethod">>
      [] type = "Class" -> <<"@classmethod">>
      [] type = "New" -> <<>>
      [] type = "Instance" -> <<>>

\* The receiver of a method kind, if the kind has one.
Receiver(type) ==
    CASE type = "Static" -> <<>>
      [] type = "Class" -> <<"cls">>
      [] type = "New" -> <<"cls">>
      [] type = "Instance" -> <<"self">>

\* What stands between the parentheses: receiver and parameters, comma separated.
Arguments(m) ==
    IF m.parameters = "" THEN Receiver(m.type)
    ELSE IF Receiver(m.type) = <<>> THEN <<m.parameters>>
    ELSE Receiver(m.type) \o <<", ", m.parameters>>

\* C13: the lines of a rendered method are, in this order, the deprecation
\* marker (if deprecated), the kind marker (@staticmethod, @classmethod, none
\* for Instance and New), @abc.abstractmethod (if abstract) and the signature;
\* the signature has no receiver for Static, cls for Class and New, self for
\* Instance, then the parameters and the return type.
C13_LineOrder ==
    rendered # None =>
        LET markers ==
                (IF Method.deprecated # None THEN <<<<indent, DeprecatedText>>>> ELSE <<>>)
                    \o [i \in 1..Len(KindMarker(Method.type)) |->
                            <<indent, KindMarker(Method.type)[i]>>]
                    \o (IF Method.is_abstract THEN <<<<indent, "@abc.abstractmethod">>>> ELSE <<>>)
            signature ==
                <<indent>> \o (IF Method.is_async THEN <<"async ">> ELSE <<>>)
                    \o <<"def ", Method.name, "(">> \o Arguments(Method)
                    \o <<")", " -> ", Method.return, ":">>
        IN  /\ SignatureIndex = Len(markers) + 1
            /\ SubSeq(RenderedLines, 1, Len(markers)) = markers
            /\ Len(SignatureLine) >= Len(signature)
            /\ SubSeq(SignatureLine, 1, Len(signature)) = signature

\* C13 witness: a deprecated abstract static method with parameters was written
\* in four lines.
C13_Witness ==
    /\ rendered # None
    /\ Method.type = "Static" /\ Method.is_abstract /\ Method.deprecated # None
    /\ Method.parameters = "x: int" /\ Method.name = "f" /\ Method.doc = ""
    /\ ~Method.is_async /\ Method.type_ignored = None
    /\ RenderedLines =
          << <<indent, DeprecatedText>>, <<indent, "@staticmethod">>,
             <<indent, "@abc.abstractmethod">>,
             <<indent, "def ", "f", "(", "x: int", ")", " -> ", "int", ":", " ...">> >>

\* The abstract instance method do_work of the unit test has its marker and its
\* receiver.
C13_WitnessDoWork ==
    /\ rendered # None
    /\ Method.name = "do_work" /\ Method.type = "Instance" /\ Method.is_abstract
    /\ RenderedLines[SignatureIndex - 1] = <<indent, "@abc.abstractmethod">>
    /\ SubSeq(SignatureLine, 2, 5) = <<"def ", "do_work", "(", "self">>

\* C14: get_variant_methods returns no method for a mapping variant of any
\* form; for any other variant exactly one __new__ (kind New, the variant's
\* constructor parameters, returning the self type) and, exactly when the
\* variant is a tuple variant, one __len__ returning int and one __getitem__
\* with an int key; unit and struct variants get __new__ only.
C14_VariantMethods ==
    variant_methods # None =>
        LET v == variant_info[1]
            ms == variant_methods[1]
        IN  IF v.is_mapping THEN DOMAIN ms = {}
            ELSE /\ DOMAIN ms =
                        IF v.form = "Tuple" THEN {"__new__", "__len__", "__getitem__"}
                        ELSE {"__new__"}
                 /\ Len(ms["__new__"]) = 1
                 /\ ms["__new__"][1].name = "__new__"
                 /\ ms["__new__"][1].type = "New"
                 /\ ms["__new__"][1].return = "Self"
                 /\ Len(ms["__new__"][1].parameters) = Len(v.constr_args)
                 /\ \A i \in 1..Len(v.constr_args) :
                        /\ ms["__new__"][1].parameters[i].name = v.constr_args[i].name
                        /\ ms["__new__"][1].parameters[i].type_info = v.constr_args[i].type_info
                 /\ v.form = "Tuple" =>
                        /\ Len(ms["__len__"]) = 1
                        /\ ms["__len__"][1].name = "__len__"
                        /\ ms["__len__"][1].return = "int"
                        /\ ms["__len__"][1].parameters = <<>>
                        /\ Len(ms["__getitem__"]) = 1
                        /\ ms["__getitem__"][1].name = "__getitem__"
                        /\ Len(ms["__getitem__"][1].parameters) = 1
                        /\ ms["__getitem__"][1].parameters[1].name = "key"
                        /\ ms["__getitem__"][1].parameters[1].type_info = "int"

\* C14 witness: a struct variant with one field, not a mapping, got __new__
\* with that field and nothing else.
C14_Witness ==
    /\ variant_methods # None
    /\ variant_info[1].form = "Struct"
    /\ ~variant_info[1].is_mapping
    /\ Len(variant_info[1].constr_args) = 1
    /\ DOMAIN variant_methods[1] = {"__new__"}
    /\ variant_methods[1]["__new__"][1].parameters[1].name = "radius"

\* A mapping tuple variant with fields got no method.
C14_WitnessMapping ==
    /\ variant_methods # None
    /\ variant_info[1].form = "Tuple"
    /\ variant_info[1].is_mapping
    /\ Len(variant_info[1].constr_args) = 2
    /\ variant_methods[1] = EmptyMap

\* C15: in a class the getter side of a name is present exactly when a getter
\* descriptor of that name was merged, and the setter side exactly when a
\* setter descriptor of that name was merged, after any number of blocks; each
\* side holds a member of that name, and a name has an entry only if one of
\* its sides is present.
C15_GetterSetterPairing ==
    \A k \in Keys :
      (OneClassMapShape(k) /\ ClassModules(k) # {}) =>
        LET c == ClassOf(k)
            getters == MergedMembers(k, "getters")
            setters == MergedMembers(k, "setters")
            pair(n) == EntryOrDefault(c.getter_setters, n, <<None, None>>)
        IN  /\ DOMAIN c.getter_setters \subseteq {"x", "y"}
            /\ \A n \in {"x", "y"} :
                  /\ (pair(n)[1] # None) <=> (Named(getters, n) # <<>>)
                  /\ (pair(n)[2] # None) <=> (Named(setters, n) # <<>>)
                  /\ pair(n)[1] # None => pair(n)[1][1].name = n
                  /\ pair(n)[2] # None => pair(n)[2][1].name = n
                  /\ (n \in DOMAIN c.getter_setters) =>
                        (pair(n)[1] # None \/ pair(n)[2] # None)

\* C15 witness: a class that got a getter x and a setter y has the getter side
\* of x only and the setter side of y only.
C15_Witness ==
    /\ Built
    /\ OneClassMapShape(1)
    /\ Len(registry.methods) = 1
    /\ registry.methods[1].struct_id = 1
    /\ Len(registry.methods[1].getters) = 1 /\ registry.methods[1].getters[1].name = "x"
    /\ Len(registry.methods[1].setters) = 1 /\ registry.methods[1].setters[1].name = "y"
    /\ ClassOf(1).getter_setters["x"][1] # None
    /\ ClassOf(1).getter_setters["x"][2] = None
    /\ ClassOf(1).getter_setters["y"][1] = None
    /\ ClassOf(1).getter_setters["y"][2] # None

\* The modules whose enum map holds the key.
EnumModules(k) == {m \in DOMAIN modules : k \in DOMAIN modules[m].enum_}

\* C16: the entity a key names, a class, a complex enum or a plain enum, is
\* marked abstract once a block with an abstract getter, setter or method was
\* merged into it.
C16_AbstractEveryEntity ==
    \A k \in Keys :
      (ShapeCount(registry, k) = 1 /\ ClassModules(k) \cup EnumModules(k) # {}) =>
        LET accessors == MergedMembers(k, "getters") \o MergedMembers(k, "setters")
                            \o MergedMembers(k, "methods")
            entity == IF ClassModules(k) # {} THEN ClassOf(k)
                      ELSE modules[CHOOSE m \in EnumModules(k) : TRUE].enum_[k]
        IN  (\E i \in 1..Len(accessors) : accessors[i].is_abstract) => entity.is_abstract

\* The behaviour pass has begun: build() is at a methods block or past them.
InBehaviourPass == pc \in {"methods", "panicked", "register_submodules", "done"}

\* Every shape and module-level descriptor of the registry is in the tree.
AllShapesInserted ==
    /\ \A i \in 1..Len(registry.classes) :
          LET d == registry.classes[i] IN
          /\ ModuleNameOf(d.module) \in DOMAIN modules
          /\ d.struct_id \in DOMAIN modules[ModuleNameOf(d.module)].class
    /\ \A i \in 1..Len(registry.complex_enums) :
          LET d == registry.complex_enums[i] IN
          /\ ModuleNameOf(d.module) \in DOMAIN modules
          /\ d.enum_id \in DOMAIN modules[ModuleNameOf(d.module)].class
    /\ \A i \in 1..Len(registry.enums) :
          LET d == registry.enums[i] IN
          /\ ModuleNameOf(d.module) \in DOMAIN modules
          /\ d.enum_id \in DOMAIN modules[ModuleNameOf(d.module)].enum_
    /\ \A i \in 1..Len(registry.functions) :
          LET d == registry.functions[i] IN
          /\ ModuleNameOf(d.module) \in DOMAIN modules
          /\ d.name \in DOMAIN modules[ModuleNameOf(d.module)].function
          /\ Len(modules[ModuleNameOf(d.module)].function[d.name]) =
                Cardinality({j \in 1..Len(registry.functions) :
                                /\ registry.functions[j].name = d.name
                                /\ registry.functions[j].module = d.module})
    /\ \A i \in 1..Len(registry.variables) :
          LET d == registry.variables[i] IN
          /\ d.module \in DOMAIN modules
          /\ d.name \in DOMAIN modules[d.module].variables
    /\ \A i \in 1..Len(registry.module_docs) :
          registry.module_docs[i].module \in DOMAIN modules

\* No class or enum of the tree has a member yet.
NothingMerged ==
    \A m \in DOMAIN modules :
        /\ \A k \in DOMAIN modules[m].class :
              /\ modules[m].class[k].attrs = <<>>
              /\ modules[m].class[k].getter_setters = EmptyMap
              /\ modules[m].class[k].methods = EmptyMap
        /\ \A k \in DOMAIN modules[m].enum_ :
              /\ modules[m].enum_[k].attrs = <<>>
              /\ modules[m].enum_[k].getters = <<>>
              /\ modules[m].enum_[k].setters = <<>>
              /\ modules[m].enum_[k].methods = <<>>

IsTarget(m, k, kind, key) ==
    /\ k = key
    /\ key \in DOMAIN modules[m].class \cup DOMAIN modules[m].enum_
    /\ \A o \in DOMAIN modules :
          key \in DOMAIN modules[o].class \cup DOMAIN modules[o].enum_
              => (o = m \/ StrLess(m, o))
    /\ kind = IF key \in DOMAIN modules[m].class THEN "class" ELSE "enum"

====
